---- MODULE Spec2Model ----
(***************************************************************************)
(* Model of the simulation-engine service of defi-simulator:               *)
(*   src/services/simulation-engine/src/simulation.py                      *)
(*   src/services/simulation-engine/src/simulation_controller.py           *)
(*   src/services/simulation-engine/src/models.py                          *)
(*                                                                         *)
(* Python's float is IEEE-754 binary64 and Python's int is unbounded, so   *)
(* both are modelled exactly: a natural number is a little-endian sequence *)
(* of limbs in base 2^15, a float is a sign, a 53-bit significand and a    *)
(* binary exponent (or inf / nan).                                         *)
(***************************************************************************)
EXTENDS Integers, Sequences, FiniteSets, TLC

----------------------------------------------------------------------------
(* Unbounded naturals (the magnitude of a Python int, a float significand) *)

Base == 2^15
LimbBits == 15

RECURSIVE BNorm(_)
BNorm(a) ==
  IF a = <<>> THEN <<>>
  ELSE IF a[Len(a)] = 0 THEN BNorm(SubSeq(a, 1, Len(a) - 1)) ELSE a

RECURSIVE BFromNat(_)
BFromNat(n) ==
  IF n = 0 THEN <<>> ELSE <<n % Base>> \o BFromNat(n \div Base)

RECURSIVE MulSmallFrom(_, _, _, _)
MulSmallFrom(a, k, i, carry) ==
  IF i > Len(a) THEN (IF carry = 0 THEN <<>> ELSE <<carry>>)
  ELSE LET t == a[i] * k + carry
       IN  <<t % Base>> \o MulSmallFrom(a, k, i + 1, t \div Base)

\* a * k for 0 <= k < Base
BMulSmall(a, k) == BNorm(MulSmallFrom(a, k, 1, 0))

RECURSIVE AddFrom(_, _, _, _)
AddFrom(a, b, i, carry) ==
  IF i > Len(a) /\ i > Len(b) THEN (IF carry = 0 THEN <<>> ELSE <<carry>>)
  ELSE LET x == IF i <= Len(a) THEN a[i] ELSE 0
           y == IF i <= Len(b) THEN b[i] ELSE 0
           t == x + y + carry
       IN  <<t % Base>> \o AddFrom(a, b, i + 1, t \div Base)

BAdd(a, b) == BNorm(AddFrom(a, b, 1, 0))

BShlLimbs(a, n) == IF a = <<>> THEN <<>> ELSE [i \in 1..n |-> 0] \o a

\* a * 2^n
BShl(a, n) == BShlLimbs(BMulSmall(a, 2^(n % LimbBits)), n \div LimbBits)

RECURSIVE MulFrom(_, _, _)
MulFrom(a, b, i) ==
  IF i > Len(b) THEN <<>>
  ELSE BAdd(BShlLimbs(BMulSmall(a, b[i]), i - 1), MulFrom(a, b, i + 1))

BMul(a, b) == MulFrom(a, b, 1)

RECURSIVE DivSmallFrom(_, _, _, _, _)
DivSmallFrom(a, k, i, rem, acc) ==
  IF i = 0 THEN [q |-> acc, r |-> rem]
  ELSE DivSmallFrom(a, k, i - 1, (rem * Base + a[i]) % k,
                    <<(rem * Base + a[i]) \div k>> \o acc)

\* quotient and remainder of a by k, for 0 < k < Base
BDivSmall(a, k) ==
  [q |-> BNorm(DivSmallFrom(a, k, Len(a), 0, <<>>).q),
   r |-> DivSmallFrom(a, k, Len(a), 0, <<>>).r]

\* floor(a / 2^n)
BShr(a, n) ==
  IF n \div LimbBits >= Len(a) THEN <<>>
  ELSE BDivSmall(SubSeq(a, n \div LimbBits + 1, Len(a)),
                 2^(n % LimbBits)).q

RECURSIVE BitLenSmall(_)
BitLenSmall(n) == IF n = 0 THEN 0 ELSE 1 + BitLenSmall(n \div 2)

BBitLen(a) ==
  IF a = <<>> THEN 0 ELSE LimbBits * (Len(a) - 1) + BitLenSmall(a[Len(a)])

\* bit i of a (bit 0 is the least significant)
BBit(a, i) ==
  LET l == i \div LimbBits + 1
  IN  IF l > Len(a) THEN 0 ELSE (a[l] \div 2^(i % LimbBits)) % 2

\* TRUE iff the n low bits of a are all zero
BLowZero(a, n) ==
  LET full == n \div LimbBits
  IN  /\ \A j \in 1..full : j > Len(a) \/ a[j] = 0
      /\ full + 1 > Len(a) \/ a[full + 1] % 2^(n % LimbBits) = 0

BIsOdd(a) == a # <<>> /\ a[1] % 2 = 1

RECURSIVE CmpFrom(_, _, _)
CmpFrom(a, b, i) ==
  IF i = 0 THEN 0
  ELSE IF a[i] < b[i] THEN -1
  ELSE IF a[i] > b[i] THEN 1
  ELSE CmpFrom(a, b, i - 1)

\* -1, 0, 1 as a < b, a = b, a > b (both normalised)
BCmp(a, b) ==
  IF Len(a) < Len(b) THEN -1
  ELSE IF Len(a) > Len(b) THEN 1
  ELSE CmpFrom(a, b, Len(a))

----------------------------------------------------------------------------
(* Python float: IEEE-754 binary64, round-to-nearest ties-to-even          *)

MantBits == 53
MinExp == -1074
MaxExp == 971

FNan == [cls |-> "nan", s |-> 0, m |-> <<>>, e |-> 0]
FInf(s) == [cls |-> "inf", s |-> s, m |-> <<>>, e |-> 0]
FZero(s) == [cls |-> "fin", s |-> s, m |-> <<>>, e |-> MinExp]

\* q + 1 or q: q is a quotient truncated by a right shift, half the first
\* bit shifted out, low whether a later bit shifted out was set
Nudge(q, half, low) ==
  IF half /\ (low \/ BIsOdd(q)) THEN BAdd(q, <<1>>) ELSE q

\* M / 2^sh rounded to the nearest integer, ties to even (sh > 0)
RoundShr(M, sh) ==
  Nudge(BShr(M, sh), BBit(M, sh - 1) = 1, ~BLowZero(M, sh - 1))

\* the float with significand m (at most MantBits + 1 bits, and then 2^MantBits)
\* and exponent e
Pack(s, m, e) ==
  IF m = <<>> THEN FZero(s)
  ELSE IF BBitLen(m) > MantBits
  THEN (IF e + 1 > MaxExp THEN FInf(s)
        ELSE [cls |-> "fin", s |-> s, m |-> BShr(m, 1), e |-> e + 1])
  ELSE IF e > MaxExp THEN FInf(s)
  ELSE [cls |-> "fin", s |-> s, m |-> m, e |-> e]

\* the exponent of the float that holds a value of L bits scaled by 2^E
TargetExp(E, L) ==
  IF E + L - MantBits > MinExp THEN E + L - MantBits ELSE MinExp

RoundAt(s, M, E, e0) ==
  IF e0 <= E THEN Pack(s, BShl(M, E - e0), e0)
  ELSE Pack(s, RoundShr(M, e0 - E), e0)

\* the float nearest to (-1)^s * M * 2^E, ties to even, overflow to inf
RoundPack(s, M, E) ==
  IF M = <<>> THEN FZero(s) ELSE RoundAt(s, M, E, TargetExp(E, BBitLen(M)))

Xor(a, b) == (a + b) % 2

\* x * y (float.__mul__ on two floats)
FMul(x, y) ==
  IF x.cls = "nan" \/ y.cls = "nan" THEN FNan
  ELSE IF x.cls = "inf" \/ y.cls = "inf"
  THEN IF (x.cls = "fin" /\ x.m = <<>>) \/ (y.cls = "fin" /\ y.m = <<>>)
       THEN FNan ELSE FInf(Xor(x.s, y.s))
  ELSE RoundPack(Xor(x.s, y.s), BMul(x.m, y.m), x.e + y.e)

GuardBits == 70

\* twice the quotient d.q, plus one when the division left a remainder
Sticky(d) == BAdd(BShl(d.q, 1), IF d.r = 0 THEN <<>> ELSE <<1>>)

\* x / n for an int literal 0 < n < Base (n converts to float exactly)
FDivInt(x, n) ==
  IF x.cls = "nan" THEN FNan
  ELSE IF x.cls = "inf" THEN FInf(x.s)
  ELSE RoundPack(x.s, Sticky(BDivSmall(BShl(x.m, GuardBits), n)),
                 x.e - GuardBits - 1)

\* Python int: sign and magnitude
PyInt(n) == [neg |-> n < 0, mag |-> BFromNat(IF n < 0 THEN -n ELSE n)]

CheckOverflow(f) ==
  IF f.cls = "inf" THEN [ok |-> FALSE, exc |-> "OverflowError"]
  ELSE [ok |-> TRUE, val |-> f]

\* int -> float conversion (PyLong_AsDouble): OverflowError when too large
IntToFloat(i) == CheckOverflow(RoundPack(IF i.neg THEN 1 ELSE 0, i.mag, 0))

Hundredths_half_up(x) ==
  IF BBit(BMulSmall(x.m, 100), -x.e - 1) = 1
  THEN BAdd(BShr(BMulSmall(x.m, 100), -x.e), <<1>>)
  ELSE BShr(BMulSmall(x.m, 100), -x.e)

\* |x| * 100 rounded to an integer, an exact tie going to the even integer
\* (x finite with a fractional part, i.e. x.e < 0)
Hundredths(x) == RoundShr(BMulSmall(x.m, 100), -x.e)

\* the float nearest to the decimal (-1)^s * h / 100
DecimalToFloat(s, h) ==
  RoundPack(s, Sticky(BDivSmall(BShl(h, GuardBits), 100)), -GuardBits - 1)

\* round(x, 2) on a float: the exact value of x is rounded to two decimals
\* and the decimal is converted back to the nearest float; inf, nan and
\* integral floats are returned as they are
PyRound2(x) ==
  IF x.cls # "fin" THEN x
  ELSE IF x.e >= 0 THEN x
  ELSE DecimalToFloat(x.s, Hundredths(x))

----------------------------------------------------------------------------
(* models.py                                                               *)

Token(name) == [name |-> name]

\* pydantic coerces the int given for the float field apy to a float
StakingPool(id, token, name, apy) ==
  [id |-> id, token |-> token, name |-> name,
   apy |-> IntToFloat(PyInt(apy)).val]

----------------------------------------------------------------------------
(* simulation.py                                                           *)

Returned(v) == [kind |-> "return", val |-> v]
Raised(exc) == [kind |-> "raise", val |-> [exc |-> exc]]

daily_rate(pool) == FDivInt(FDivInt(pool.apy, 100), 365)

\* amount_staked * daily_rate * duration_days, evaluated left to right; d is
\* the int duration_days converted to float for the second product
Product(amount_staked, rate, d) ==
  IF d.ok THEN Returned(FMul(FMul(amount_staked, rate), d.val))
  ELSE Raised(d.exc)

earnings(pool, amount_staked, duration_days) ==
  Product(amount_staked, daily_rate(pool), IntToFloat(duration_days))

Result_rounds_amount(pool, amount_staked, duration_days, e) ==
  IF e.kind = "raise" THEN e
  ELSE Returned([pool_id       |-> pool.id,
                 pool_name     |-> pool.name,
                 amount_staked |-> PyRound2(amount_staked),
                 duration_days |-> duration_days,
                 earnings      |-> PyRound2(e.val)])

\* the dict returned, unless computing the earnings raised
Result(pool, amount_staked, duration_days, e) ==
  IF e.kind = "raise" THEN e
  ELSE Returned([pool_id       |-> pool.id,
                 pool_name     |-> pool.name,
                 amount_staked |-> amount_staked,
                 duration_days |-> duration_days,
                 earnings      |-> PyRound2(e.val)])

run_staking_simulation(pool, amount_staked, duration_days) ==
  Result(pool, amount_staked, duration_days,
         earnings(pool, amount_staked, duration_days))

----------------------------------------------------------------------------
(* simulation_controller.py                                                *)

\* JSON values of a request body
JAbsent == [t |-> "absent", v |-> [none |-> TRUE]]
\* a string that does not spell a number
JStr(text) == [t |-> "str", v |-> [text |-> text]]
JInt(i) == [t |-> "int", v |-> i]
JFloat(f) == [t |-> "float", v |-> f]

Body(p, a, d) == [pool_id |-> p, amount_staked |-> a, duration_days |-> d]

IntField(j) == j.t = "int"
\* a float field also takes a JSON integer, which is converted
FloatField(j) == j.t \in {"float", "int"}

IsValid_skips_pool_id(body) ==
  /\ FloatField(body.amount_staked)
  /\ IntField(body.duration_days)

\* structural validation of a body against the request model
IsValid(body) ==
  /\ IntField(body.pool_id)
  /\ FloatField(body.amount_staked)
  /\ IntField(body.duration_days)

\* the SimulationRequest built from a valid body
SimulationRequest(body) ==
  [pool_id       |-> body.pool_id.v,
   amount_staked |-> IF body.amount_staked.t = "int"
                     THEN IntToFloat(body.amount_staked.v).val
                     ELSE body.amount_staked.v,
   duration_days |-> body.duration_days.v]

\* the pool constructed at module load
EthPool == StakingPool(1, Token("ETH"), "ETH Staking Pool", 25)

simulate_staking_yield(pool, request) ==
  run_staking_simulation(pool, request.amount_staked, request.duration_days)

----------------------------------------------------------------------------
(* Inputs                                                                  *)

\* the float (-1)^s * n * 2^e
Fl(s, n, e) == RoundPack(s, BFromNat(n), e)

Pow2(n) == [neg |-> FALSE, mag |-> BShl(<<1>>, n)]

Nil == [nil |-> TRUE]

\* request bodies sent to the endpoint
PoolIds == {PyInt(1), PyInt(999)}

ValidBodies ==
  { Body(JInt(p), ad[1], JInt(ad[2])) :
      p \in PoolIds,
      ad \in { <<JFloat(Fl(0, 1000, 0)), PyInt(365)>>,
               <<JInt(PyInt(0)), PyInt(-5)>>,
               <<JFloat(Fl(1, 1, -1)), Pow2(1024)>> } }

InvalidBodies ==
  { Body(JInt(PyInt(1)), JAbsent, JInt(PyInt(365))),
    Body(JInt(PyInt(1)), JFloat(Fl(0, 1000, 0)), JStr("abc")),
    Body(JAbsent, JFloat(Fl(0, 1000, 0)), JInt(PyInt(365))) }

Bodies == ValidBodies \cup InvalidBodies

\* arguments of direct calls of the calculator
CalcPools == {EthPool, StakingPool(2, Token("BTC"), "BTC Staking Pool", 10)}

CalcAmounts ==
  { FZero(0), Fl(0, 1, -1), Fl(1, 1, -1), Fl(0, 5, -1), Fl(0, 1095, -1),
    Fl(0, 1000, 0), Fl(1, 1000, 0), Fl(0, 73, -3), Fl(0, 1, MinExp),
    Fl(0, 1, 1023), FInf(0), FNan }

CalcDurations ==
  { PyInt(-5), PyInt(0), PyInt(1), PyInt(365), PyInt(1000000), Pow2(1024) }

----------------------------------------------------------------------------
(* State                                                                   *)

NClients == 2
Clients == 1..NClients

VARIABLES
  eth_pool,   \* the module-level StakingPool object of the controller
  pools,      \* the StakingPool objects that exist in the process
  conn,       \* per client: the request in progress and its response
  call        \* a direct call of run_staking_simulation and its outcome

vars == <<eth_pool, pools, conn, call>>

Idle == [st |-> "idle", body |-> Nil, request |-> Nil, ran |-> {},
         status |-> 0, resp |-> Nil]

NoCall == [st |-> "none", pool |-> Nil, amount_staked |-> Nil,
           duration_days |-> Nil, result |-> Nil]

Init ==
  /\ eth_pool = EthPool
  /\ pools = {EthPool}
  /\ conn = [c \in Clients |-> Idle]
  /\ call = NoCall

\* a client posts a body to /api/simulate/staking
Send(c, body) ==
  /\ conn[c].st \in {"idle", "done"}
  /\ conn' = [conn EXCEPT ![c] = [Idle EXCEPT !.st = "received",
                                              !.body = body]]
  /\ UNCHANGED <<eth_pool, pools, call>>

Validate_resets_pool(c) ==
  /\ conn[c].st = "received"
  /\ conn' = [conn EXCEPT ![c] =
       IF IsValid(conn[c].body)
       THEN [@ EXCEPT !.st = "validated",
                      !.request = SimulationRequest(conn[c].body)]
       ELSE [@ EXCEPT !.st = "done", !.status = 422,
                      !.resp = [detail |-> "Unprocessable Entity"]]]
  /\ eth_pool' = IF IsValid(conn[c].body) THEN eth_pool
                 ELSE [eth_pool EXCEPT !.apy = FZero(0)]
  /\ pools' = {eth_pool'}
  /\ UNCHANGED call

\* the framework validates the body against SimulationRequest before the
\* handler is called; a body that fails is answered with 422
Validate(c) ==
  /\ conn[c].st = "received"
  /\ conn' = [conn EXCEPT ![c] =
       IF IsValid(conn[c].body)
       THEN [@ EXCEPT !.st = "validated",
                      !.request = SimulationRequest(conn[c].body)]
       ELSE [@ EXCEPT !.st = "done", !.status = 422,
                      !.resp = [detail |-> "Unprocessable Entity"]]]
  /\ UNCHANGED <<eth_pool, pools, call>>

Respond(c, result) ==
  IF result.kind = "return"
  THEN [conn[c] EXCEPT !.st = "done", !.status = 200, !.resp = result.val,
                       !.ran = {"handler", "calculator"}]
  ELSE [conn[c] EXCEPT !.st = "done", !.status = 500,
                       !.resp = [detail |-> "Internal Server Error"],
                       !.ran = {"handler", "calculator"}]

Handle_scales_apy(c) ==
  /\ conn[c].st = "validated"
  /\ conn' = [conn EXCEPT ![c] =
                Respond(c, simulate_staking_yield(eth_pool, conn[c].request))]
  /\ eth_pool' = [eth_pool EXCEPT !.apy = FDivInt(@, 100)]
  /\ pools' = {eth_pool'}
  /\ UNCHANGED call

Handle_registers_pool(c) ==
  /\ conn[c].st = "validated"
  /\ conn' = [conn EXCEPT ![c] =
                Respond(c, simulate_staking_yield(eth_pool, conn[c].request))]
  /\ pools' = pools \cup {[eth_pool EXCEPT !.id = 2]}
  /\ UNCHANGED <<eth_pool, call>>

\* the handler runs on the validated request; its return value is the body
\* of the 200 response, an exception it lets escape is answered with 500
Handle(c) ==
  /\ conn[c].st = "validated"
  /\ conn' = [conn EXCEPT ![c] =
                Respond(c, simulate_staking_yield(eth_pool, conn[c].request))]
  /\ UNCHANGED <<eth_pool, pools, call>>

Next ==
  \E c \in Clients :
    \/ \E body \in Bodies : Send(c, body)
    \/ Validate(c)
    \/ Handle(c)

Spec == Init /\ [][Next]_vars

\* direct calls of the calculator
InitCalc ==
  /\ eth_pool = EthPool
  /\ pools = {EthPool}
  /\ conn = [c \in Clients |-> Idle]
  /\ call \in { [st |-> "called", pool |-> p, amount_staked |-> a,
                 duration_days |-> d, result |-> Nil] :
                  p \in CalcPools, a \in CalcAmounts, d \in CalcDurations }

Run ==
  /\ call.st = "called"
  /\ call' = [call EXCEPT
       !.st = "finished",
       !.result = run_staking_simulation(call.pool, call.amount_staked,
                                         call.duration_days)]
  /\ UNCHANGED <<eth_pool, pools, conn>>

NextCalc == Run

SpecCalc == InitCalc /\ [][NextCalc]_vars

----------------------------------------------------------------------------
(* Properties                                                              *)

Fields == {"pool_id", "amount_staked", "duration_days"}

\* a body with a required field missing or of the wrong type
Malformed(body) == \E f \in Fields : body[f].t \in {"absent", "str"}

Done(c) == conn[c].st = "done"
Finished == call.st = "finished"
ReturnedResult == Finished /\ call.result.kind = "return"

IsZero(x) == x.cls = "fin" /\ x.m = <<>>
IntIsZero(i) == i.mag = <<>>

\* the float 25.0, the apy of the ETH pool
Apy25 == Fl(0, 25, 0)

\* round(amount_staked * (apy/100/365) * duration_days, 2) with apy = 25; d is
\* duration_days as a float
Formula25(amount_staked, d) ==
  PyRound2(FMul(FMul(amount_staked, FDivInt(FDivInt(Apy25, 100), 365)), d))

\* C1 (stated as claimed; refuted by the code): every call of the calculator
\* with the apy-25 pool, for any amount_staked and any int duration_days,
\* returns earnings equal to
\* round(amount_staked * (apy/100/365) * duration_days, 2).
C1_EarningsFormula ==
  (Finished /\ call.pool.apy = Apy25) =>
    /\ call.result.kind = "return"
    /\ IntToFloat(call.duration_days).ok
    /\ call.result.val.earnings =
         Formula25(call.amount_staked, IntToFloat(call.duration_days).val)

SameButPoolId(b1, b2) ==
  /\ b1.amount_staked = b2.amount_staked
  /\ b1.duration_days = b2.duration_days

\* C2 (stated as claimed; refuted by the code): every well-formed request,
\* whatever its pool_id, succeeds with the ETH pool's data (pool_id 1,
\* pool_name 'ETH Staking Pool') and earnings computed at apy 25, and two
\* requests that differ only in pool_id get the same response.
C2_PoolIdIgnored ==
  \A c \in Clients :
    (Done(c) /\ ~Malformed(conn[c].body)) =>
      /\ conn[c].status = 200
      /\ conn[c].resp.pool_id = 1
      /\ conn[c].resp.pool_name = "ETH Staking Pool"
      /\ conn[c].resp.earnings =
           Formula25(SimulationRequest(conn[c].body).amount_staked,
                     IntToFloat(conn[c].body.duration_days.v).val)
      /\ \A d \in Clients :
           (Done(d) /\ ~Malformed(conn[d].body)
              /\ SameButPoolId(conn[c].body, conn[d].body)) =>
             conn[d].resp = conn[c].resp

\* C3: in every step, any two responses present to requests with identical
\* bodies are identical (whatever was served in between), and no step changes
\* the pool or the set of pools.
C3_Idempotent ==
  [][/\ \A c, d \in Clients :
          (conn'[c].st = "done" /\ conn'[d].st = "done"
             /\ conn'[c].body = conn'[d].body) =>
            /\ conn'[c].status = conn'[d].status
            /\ conn'[c].resp = conn'[d].resp
     /\ eth_pool' = eth_pool
     /\ pools' = pools]_vars

C3_Witness ==
  \E c, d \in Clients :
    /\ c # d /\ Done(c) /\ Done(d)
    /\ conn[c].body = conn[d].body
    /\ conn[c].status = 200
    /\ conn[d].resp = conn[c].resp

\* C4: a body with a required field missing or of the wrong type is never
\* passed to the handler or the calculator, and is answered with 422 and a body
\* without an earnings field.
C4_MalformedRejected ==
  \A c \in Clients :
    (conn[c].st # "idle" /\ Malformed(conn[c].body)) =>
      /\ conn[c].st \in {"received", "done"}
      /\ conn[c].ran = {}
      /\ Done(c) => /\ conn[c].status = 422
                    /\ "earnings" \notin DOMAIN conn[c].resp

C4_Witness ==
  \E c \in Clients :
    /\ Done(c) /\ conn[c].body.amount_staked.t = "absent"
    /\ conn[c].status = 422

\* C5 (stated as claimed; refuted by the code): every well-formed request,
\* negative, zero or unknown values included, is answered with status 200 and
\* a result body; the calculator raises no error.
C5_OnlyValidationFails ==
  \A c \in Clients :
    (Done(c) /\ ~Malformed(conn[c].body)) =>
      /\ conn[c].status = 200
      /\ "earnings" \in DOMAIN conn[c].resp

\* C6 (stated as claimed; refuted by the code): a call with amount_staked = 0
\* or with duration_days = 0 returns earnings 0.00, whatever the other
\* argument is.
C6_ZeroEarnings ==
  (Finished /\ (IsZero(call.amount_staked) \/ IntIsZero(call.duration_days))) =>
    /\ call.result.kind = "return"
    /\ IsZero(call.result.val.earnings)

\* the exact value of |x| * 100 is N / 2^k, with N = Scaled(x) and k = -x.e
Scaled(x) == BMulSmall(x.m, 100)

\* |x| lies exactly halfway between two multiples of 0.01
IsTie(x) ==
  /\ x.cls = "fin" /\ x.e < 0
  /\ BBit(Scaled(x), -x.e - 1) = 1
  /\ BLowZero(Scaled(x), -x.e - 1)

\* |q/100 - N/(100 * 2^k)| <= 0.005, i.e. 2 * |q * 2^k - N| <= 2^k
Within(q, N, k) ==
  /\ BCmp(BShl(q, k + 1), BAdd(BShl(N, 1), BShl(<<1>>, k))) <= 0
  /\ BCmp(BShl(N, 1), BAdd(BShl(q, k + 1), BShl(<<1>>, k))) <= 0

\* the multiples of 0.01 next to |x|, in hundredths: floor and floor + 1
Neighbours(x) ==
  {BShr(Scaled(x), -x.e), BAdd(BShr(Scaled(x), -x.e), <<1>>)}

\* E is x rounded to two decimals, an exact tie going to the even hundredth;
\* a float that is integral, infinite or nan is its own rounding
RoundedHalfEven(E, x) ==
  IF x.cls # "fin" \/ x.e >= 0 THEN E = x
  ELSE \E q \in Neighbours(x) :
         /\ E = DecimalToFloat(x.s, q)
         /\ Within(q, Scaled(x), -x.e)
         /\ IsTie(x) => ~BIsOdd(q)

\* the same with an exact tie going away from zero
RoundedHalfUp(E, x) ==
  IF x.cls # "fin" \/ x.e >= 0 THEN E = x
  ELSE \E q \in Neighbours(x) :
         /\ E = DecimalToFloat(x.s, q)
         /\ Within(q, Scaled(x), -x.e)
         /\ IsTie(x) => q = BAdd(BShr(Scaled(x), -x.e), <<1>>)

\* the unrounded product of the finished call
Unrounded == earnings(call.pool, call.amount_staked, call.duration_days).val

\* C7 (as amended): the returned earnings is the float nearest to a multiple
\* of 0.01 that differs from the unrounded product by at most 0.005, and a
\* product exactly halfway between two multiples of 0.01 goes to the even
\* one, for positive and negative products alike; an integral, infinite or nan
\* product is returned as it is.
C7_RoundHalfEven ==
  ReturnedResult => RoundedHalfEven(call.result.val.earnings, Unrounded)

C7_Witness ==
  /\ ReturnedResult
  /\ IsTie(Unrounded)
  /\ Unrounded.s = 1
  /\ call.result.val.earnings = DecimalToFloat(1, <<12>>)

\* C7 (stated as claimed; refuted by the code): the same, with a product
\* exactly halfway between two multiples of 0.01 rounded half-up, away from
\* zero.
C7_RoundHalfUp ==
  ReturnedResult => RoundedHalfUp(call.result.val.earnings, Unrounded)

\* C8: the dict returned by run_staking_simulation has exactly the five fields
\* pool_id, pool_name, amount_staked, duration_days, earnings, and the first
\* four are pool.id, pool.name and the two arguments, unchanged.
C8_EchoesInputs ==
  ReturnedResult =>
    /\ DOMAIN call.result.val =
         {"pool_id", "pool_name", "amount_staked", "duration_days", "earnings"}
    /\ call.result.val.pool_id = call.pool.id
    /\ call.result.val.pool_name = call.pool.name
    /\ call.result.val.amount_staked = call.amount_staked
    /\ call.result.val.duration_days = call.duration_days

C8_Witness ==
  /\ ReturnedResult
  /\ call.pool.id = 2
  /\ call.amount_staked # PyRound2(call.amount_staked)
  /\ call.duration_days.neg

\* the response of a freshly started process to a single request
AloneHandled(result) ==
  IF result.kind = "return"
  THEN [status |-> 200, resp |-> result.val]
  ELSE [status |-> 500, resp |-> [detail |-> "Internal Server Error"]]

AloneResponse(body) ==
  IF Malformed(body)
  THEN [status |-> 422, resp |-> [detail |-> "Unprocessable Entity"]]
  ELSE AloneHandled(simulate_staking_yield(EthPool, SimulationRequest(body)))

\* C9: whatever requests, well-formed or not, were served before or are
\* served at the same time, every response equals the response the request
\* would get if it were the only one served.
C9_Independent ==
  \A c \in Clients :
    Done(c) =>
      [status |-> conn[c].status, resp |-> conn[c].resp]
        = AloneResponse(conn[c].body)

C9_Witness ==
  \E c, d \in Clients :
    /\ Done(c) /\ conn[c].status = 422
    /\ Done(d) /\ conn[d].status = 200
    /\ ~IsZero(conn[d].resp.earnings)

\* C10: in every reachable state eth_pool is the pool with id 1, token 'ETH',
\* name 'ETH Staking Pool' and apy 25, and it is the only pool.
C10_PoolReadOnly ==
  /\ eth_pool.id = 1
  /\ eth_pool.token.name = "ETH"
  /\ eth_pool.name = "ETH Staking Pool"
  /\ eth_pool.apy = Apy25
  /\ Cardinality(pools) = 1
  /\ eth_pool \in pools

C10_Witness ==
  \E c, d \in Clients :
    /\ Done(c) /\ conn[c].status = 200 /\ conn[c].ran = {"handler", "calculator"}
    /\ Done(d) /\ conn[d].status # 200

====
